---- MODULE Spec2Model ----
(***************************************************************************)
(* State-machine model of opcua_server.py: SensorReader (DHT11, INA219,    *)
(* HC-SR04) and OPCUAServer (init_server, update_values, run).             *)
(*                                                                         *)
(* Number representation.  Python floats are fixed-point integers in       *)
(* hundredths (25.0 degC is 2500, 171.5 cm is 17150).  Pulse durations are *)
(* integers in units of 0.1 microsecond.  Inside read_ultrasonic           *)
(* time.time() is the fine clock t, counted in polling ticks of 10 ms      *)
(* since update_values was entered.  The wall clock used for uptime and    *)
(* the timestamp is `clock`, in whole seconds.                             *)
(* The HC-SR04 reading of test_sensor.py is followed in `script`.          *)
(***************************************************************************)
EXTENDS Integers, Sequences, FiniteSets, TLC

\* ---------------------------------------------------------------- bounds
\* largest advance of the fine clock between two consecutive time.time() calls
MaxStep == 2
\* the loop starts no sleep that would end after this wall-clock second
MaxClock == 2

\* ------------------------------------------------------ program constants
\* UPDATE_INTERVAL = 2.0 (seconds)
UPDATE_INTERVAL == 2
\* the literal 0.1 of both polling loops, in 10 ms ticks
TIMEOUT == 10
\* Python's None
None == -1
\* the fine clock is not followed beyond both timeouts plus two polling steps
TimerCap == 2 * TIMEOUT + 2 * MaxStep

Sensors == {"dht", "ina", "us"}

\* the keys of self.nodes in the order update_values writes them
SlotOrder ==
    << "temp", "temp_f", "humidity", "dht_status",
       "voltage", "current", "power", "ina_status",
       "distance", "distance_in", "ultrasonic_status",
       "timestamp", "uptime" >>

Slots == { SlotOrder[i] : i \in 1..Len(SlotOrder) }

VARIABLES
    dht_sensor,          \* self.dht_sensor is not None
    ina219,              \* self.ina219 is not None
    ultrasonic_enabled,  \* self.ultrasonic_enabled
    pc,                  \* position of run()
    nodes,               \* value of every state-tree slot
    dht,                 \* (temp_c, humidity, dht_status) of this call
    ina,                 \* (voltage, current, power, ina_status) of this call
    us,                  \* (distance_cm, ultrasonic_status) of this call
    derived,             \* (temp_f, distance_in, uptime, timestamp) of this call
    timeout_start,       \* locals of read_ultrasonic
    pulse_start,
    pulse_end,
    t,                   \* fine clock
    clock,               \* wall clock, seconds
    start_time,          \* local of run()
    wi,                  \* index in SlotOrder of the next write_value
    tick,                \* number of update_values calls started
    outcome,             \* what each device did in this call
    devAccess,           \* read calls that touched the device, per sensor
    wcount,              \* writes of this call, per slot
    wtick,               \* the call whose value each slot holds
    stop_cause,          \* why run() left its try block
    released,            \* handles released by cleanup()
    probe,               \* pulse duration handed to the range validation alone
    echo,                \* what the polls of the current read_ultrasonic sampled
    script,              \* test_sensor.py's HC-SR04 reading, given the samples
                         \* and clock readings read_ultrasonic gets
    remote               \* remote clients: writes made, slots holding a client's
                         \* value, calls whose values the last read returned

vars ==
    << dht_sensor, ina219, ultrasonic_enabled, pc, nodes, dht, ina, us, derived,
       timeout_start, pulse_start, pulse_end, t, clock, start_time, wi, tick,
       outcome, devAccess, wcount, wtick, stop_cause, released, probe, echo,
       remote, script >>

\* ------------------------------------------------------------ arithmetic
\* float(x) of a whole number x, in hundredths
ToFloat(x) == x * 100

\* round() of the non-negative ratio n / d to a whole number, ties to even
RoundHalfEven(n, d) ==
    LET q == n \div d
        r == n % d
    IN  IF 2 * r < d THEN q
        ELSE IF 2 * r > d THEN q + 1
        ELSE IF q % 2 = 0 THEN q ELSE q + 1

\* ------------------------------------------------------- device behaviour
\* what the DHT11 driver does on one read: two property values (each may be
\* None), the driver's RuntimeError, or any other exception
DhtDevice ==
    { [kind |-> "values", temperature |-> tt, humidity |-> hh] :
        tt \in {None, 25}, hh \in {None, 40} }
    \cup { [kind |-> k, temperature |-> None, humidity |-> None] :
             k \in {"RuntimeError", "Exception"} }

\* what the INA219 driver does on one read: volts, milliamps and milliwatts
\* (in hundredths), or an exception
InaDevice ==
    { [kind |-> "values", bus_voltage |-> 500, current |-> 50000, power |-> 250000],
      [kind |-> "Exception", bus_voltage |-> 0, current |-> 0, power |-> 0] }

\* ------------------------------------------------------------ SensorReader
\* A read returns its payload and status; `access` is 1 when the call touched
\* the device, `raised` is TRUE when the call ends with an exception instead
\* of a return.
DhtResult(tc, h, st, acc) ==
    [temp_c |-> tc, humidity |-> h, status |-> st, access |-> acc,
     raised |-> FALSE]

\* read_dht11 that probes the device although the port never initialised
read_dht11_reprobe(sensor, dev) ==
    IF dev.kind = "values" THEN
        IF dev.temperature # None /\ dev.humidity # None
        THEN DhtResult(ToFloat(dev.temperature), ToFloat(dev.humidity), 0, 1)
        ELSE DhtResult(0, 0, 1, 1)
    ELSE IF dev.kind = "RuntimeError" THEN DhtResult(0, 0, 1, 1)
    ELSE DhtResult(0, 0, 2, 1)

\* read_dht11 with a single except clause that maps every failure to status 1
read_dht11_one_except(sensor, dev) ==
    IF ~sensor THEN DhtResult(0, 0, 2, 0)
    ELSE IF dev.kind = "values" /\ dev.temperature # None /\ dev.humidity # None
    THEN DhtResult(ToFloat(dev.temperature), ToFloat(dev.humidity), 0, 1)
    ELSE DhtResult(0, 0, 1, 1)

read_dht11(sensor, dev) ==
    IF ~sensor THEN DhtResult(0, 0, 2, 0)
    ELSE IF dev.kind = "values" THEN
        IF dev.temperature # None /\ dev.humidity # None
        THEN DhtResult(ToFloat(dev.temperature), ToFloat(dev.humidity), 0, 1)
        ELSE DhtResult(0, 0, 1, 1)
    ELSE IF dev.kind = "RuntimeError" THEN DhtResult(0, 0, 1, 1)
    ELSE DhtResult(0, 0, 2, 1)

InaResult(v, c, p, st, acc) ==
    [voltage |-> v, current |-> c, power |-> p, status |-> st, access |-> acc,
     raised |-> FALSE]

\* read_ina219 that gives up when the DHT11 read of the same call failed
read_ina219_after_dht(sensor, dev) ==
    IF ~sensor \/ dht.status # 0 THEN InaResult(0, 0, 0, 2, 0)
    ELSE IF dev.kind = "values"
    THEN InaResult(dev.bus_voltage, dev.current \div 1000, dev.power \div 1000, 0, 1)
    ELSE InaResult(0, 0, 0, 2, 1)

\* read_ina219 without its try/except: a device exception leaves the call
read_ina219_no_except(sensor, dev) ==
    IF ~sensor THEN InaResult(0, 0, 0, 2, 0)
    ELSE IF dev.kind = "values"
    THEN InaResult(dev.bus_voltage, dev.current \div 1000, dev.power \div 1000, 0, 1)
    ELSE [voltage |-> 0, current |-> 0, power |-> 0, status |-> 2, access |-> 1,
          raised |-> TRUE]

read_ina219(sensor, dev) ==
    IF ~sensor THEN InaResult(0, 0, 0, 2, 0)
    ELSE IF dev.kind = "values"
    THEN InaResult(dev.bus_voltage, dev.current \div 1000, dev.power \div 1000, 0, 1)
    ELSE InaResult(0, 0, 0, 2, 1)

UsResult(d, st) == [distance_cm |-> d, status |-> st]

\* the except clause of read_ultrasonic
ultrasonic_except == [distance_cm |-> 0, status |-> 2, raised |-> FALSE]

\* pulse_end - pulse_start of two fine-clock readings, in 0.1 microseconds
PulseDuration(pe, ps) == (pe - ps) * 100000

\* distance = round(pulse_duration * 17150, 2), in hundredths of a centimetre:
\* 17150 cm/s * 100 / 10^7 is 343/2000 (kept reduced to stay within 32 bits)
Distance(pulse_duration) == RoundHalfEven(pulse_duration * 343, 2000)

\* the range validation with both ends of the range excluded
RangeResult_exclusive(pulse_duration) ==
    LET distance == Distance(pulse_duration)
    IN  IF ToFloat(2) < distance /\ distance < ToFloat(400)
        THEN UsResult(distance, 0)
        ELSE UsResult(0, 3)

\* the range validation that hands back the rejected distance
RangeResult_keeps_distance(pulse_duration) ==
    LET distance == Distance(pulse_duration)
    IN  IF ToFloat(2) <= distance /\ distance <= ToFloat(400)
        THEN UsResult(distance, 0)
        ELSE UsResult(distance, 3)

\* a range validation without the lower bound
RangeResult_no_minimum(pulse_duration) ==
    LET distance == Distance(pulse_duration)
    IN  IF distance <= ToFloat(400)
        THEN UsResult(distance, 0)
        ELSE UsResult(0, 3)

\* the range validation that ends read_ultrasonic
RangeResult(pulse_duration) ==
    LET distance == Distance(pulse_duration)
    IN  IF ToFloat(2) <= distance /\ distance <= ToFloat(400)
        THEN UsResult(distance, 0)
        ELSE UsResult(0, 3)

\* a first-loop test that already fires when exactly 0.1 s have passed
NoEchoStart_inclusive(ps, ts) == ps - ts >= TIMEOUT

\* the timeout test of the first polling loop
NoEchoStart(ps, ts) == ps - ts > TIMEOUT

\* a second-loop test that measures from the start of polling
NoEchoEnd_from_polling_start(pe, ps) == pe - timeout_start > TIMEOUT

\* a second loop without a timeout
NoEchoEnd_never(pe, ps) == FALSE

\* the timeout test of the second polling loop
NoEchoEnd(pe, ps) == pe - ps > TIMEOUT

\* ------------------------------------------------------------ update_values
\* a conversion that drifts with the number of calls made so far
temp_f_drifting(temp_c) == (temp_c * 9) \div 5 + ToFloat(32) + tick

temp_f(temp_c) == (temp_c * 9) \div 5 + ToFloat(32)

distance_in(distance_cm) == (distance_cm * 100) \div 254

\* time.time() - start_time, in hundredths of a second
Uptime(now, st) == ToFloat(now - st)

\* strftime("%Y-%m-%d %H:%M:%S") of a wall-clock second: its fields
Strftime(now) == << now \div 60, now % 60 >>

Unset == None
NoDht == [temp_c |-> 0, humidity |-> 0, status |-> Unset]
NoIna == [voltage |-> 0, current |-> 0, power |-> 0, status |-> Unset]
NoUs == [distance_cm |-> 0, status |-> Unset]
NoDerived == [temp_f |-> 0, distance_in |-> 0, uptime |-> 0, timestamp |-> << >>, done |-> FALSE]

\* no poll of the echo line yet
NoEcho == [low |-> FALSE, high |-> FALSE]

\* no remote client has written or read
NoRemote == [writes |-> 0, overridden |-> {}, observed |-> {}]

\* the value update_values writes to a slot
SlotValue(slot, d, i, u, dv) ==
    CASE slot = "temp" -> d.temp_c
      [] slot = "temp_f" -> dv.temp_f
      [] slot = "humidity" -> d.humidity
      [] slot = "dht_status" -> d.status
      [] slot = "voltage" -> i.voltage
      [] slot = "current" -> i.current
      [] slot = "power" -> i.power
      [] slot = "ina_status" -> i.status
      [] slot = "distance" -> u.distance_cm
      [] slot = "distance_in" -> dv.distance_in
      [] slot = "ultrasonic_status" -> u.status
      [] slot = "timestamp" -> dv.timestamp
      [] slot = "uptime" -> dv.uptime

\* the initial value add_variable gives a slot
InitialValue(slot) == IF slot = "timestamp" THEN << >> ELSE 0

\* ------------------------------------ test_sensor.py: the HC-SR04 reading
\* the literal 0.1 of the script's polling loops, in 10 ms ticks
SCRIPT_TIMEOUT == 10

\* the script before its trigger pulse
ScriptIdle ==
    [pc |-> "idle", timeout_start |-> 0, pulse_start |-> 0, pulse_end |-> 0,
     result |-> "none", distance |-> 0]

\* the trigger pulse, then timeout_start = time.time(); pulse_start = timeout_start
ScriptTrigger(now) ==
    [ScriptIdle EXCEPT !.pc = "wait_rise", !.timeout_start = now, !.pulse_start = now]

\* a script whose timeout already fires when exactly 0.1 s have passed
ScriptTimedOut_inclusive(later, earlier) == later - earlier >= SCRIPT_TIMEOUT

\* `if pulse_start - timeout_start > 0.1`, `if pulse_end - pulse_start > 0.1`
ScriptTimedOut(later, earlier) == later - earlier > SCRIPT_TIMEOUT

\* distance = round((pulse_end - pulse_start) * 17150, 2)
ScriptDistance(pe, ps) == RoundHalfEven((pe - ps) * 100000 * 343, 2000)

\* `if 2 <= distance <= 400`: a counted reading, else OUT OF RANGE
ScriptValidate(distance) ==
    IF ToFloat(2) <= distance /\ distance <= ToFloat(400)
    THEN "success" ELSE "out_of_range"

\* one pass of the script's polling loops on a sample of the echo line
\* (level) taken when time.time() reads `now`
ScriptPoll(s, level, now) ==
    CASE s.pc = "wait_rise" /\ level = 0 ->
            IF ScriptTimedOut(now, s.timeout_start)
            THEN [s EXCEPT !.pulse_start = now, !.pc = "done", !.result = "timeout"]
            ELSE [s EXCEPT !.pulse_start = now]
      [] s.pc = "wait_rise" /\ level = 1 ->
            [s EXCEPT !.pulse_end = s.pulse_start, !.pc = "wait_fall"]
      [] s.pc = "wait_fall" /\ level = 1 ->
            IF ScriptTimedOut(now, s.pulse_start)
            THEN [s EXCEPT !.pulse_end = now, !.pc = "done", !.result = "timeout"]
            ELSE [s EXCEPT !.pulse_end = now]
      [] s.pc = "wait_fall" /\ level = 0 ->
            LET distance == ScriptDistance(s.pulse_end, s.pulse_start)
            IN  [s EXCEPT !.pc = "done", !.result = ScriptValidate(distance),
                          !.distance = distance]
      [] OTHER -> s

\* a GPIO call raises: `except Exception` prints an error
ScriptError(s) == [s EXCEPT !.pc = "done", !.result = "error"]

\* ------------------------------------------------------------------- Init
\* after OPCUAServer.__init__: SensorReader.__init__ has tried each sensor once
Init ==
    /\ dht_sensor \in BOOLEAN
    /\ ina219 \in BOOLEAN
    /\ ultrasonic_enabled \in BOOLEAN
    /\ pc = "init_server"
    /\ nodes = [s \in Slots |-> InitialValue(s)]
    /\ dht = NoDht
    /\ ina = NoIna
    /\ us = NoUs
    /\ derived = NoDerived
    /\ timeout_start = 0
    /\ pulse_start = 0
    /\ pulse_end = 0
    /\ t = 0
    /\ clock = 0
    /\ start_time = 0
    /\ wi = 1
    /\ tick = 0
    /\ outcome = [s \in Sensors |-> "none"]
    /\ devAccess = [s \in Sensors |-> 0]
    /\ wcount = [s \in Slots |-> 0]
    /\ wtick = [s \in Slots |-> 0]
    /\ stop_cause = "none"
    /\ released = {}
    /\ probe = 0
    /\ echo = NoEcho
    /\ remote = NoRemote
    /\ script = ScriptIdle

\* ---------------------------------------------------------------- cleanup
\* the handles SensorReader.__init__ holds after construction: the DHT11
\* pin, the I2C bus of the INA219, the GPIO pins of the HC-SR04
Acquired(d, i, u) ==
    (IF d THEN {"dht"} ELSE {}) \cup (IF i THEN {"i2c"} ELSE {})
        \cup (IF u THEN {"gpio"} ELSE {})

\* a run() without its finally clause: nothing is released
cleanup_skipped(d, u) == {}

\* the handles SensorReader.cleanup releases
cleanup(d, u) ==
    (IF d THEN {"dht"} ELSE {}) \cup (IF u THEN {"gpio"} ELSE {})

\* a loop that notices an interrupt only after the update_values call that
\* follows the sleep has begun
Stop_deferred(cause) ==
    IF cause = "interrupt" /\ pc = "sleep"
    THEN /\ pc' = "read_dht11"
         /\ stop_cause' = cause
         /\ tick' = tick + 1
         /\ UNCHANGED << dht_sensor, ina219, ultrasonic_enabled, nodes, dht, ina, us,
                         derived, timeout_start, pulse_start, pulse_end, t, clock,
                         start_time, wi, outcome, devAccess, wcount, wtick,
                         released, probe, echo, remote, script >>
    ELSE /\ pc' = "stopped"
         /\ stop_cause' = cause
         /\ released' = cleanup(dht_sensor, ultrasonic_enabled)
         /\ dht' = NoDht
         /\ ina' = NoIna
         /\ us' = NoUs
         /\ derived' = NoDerived
         /\ timeout_start' = 0
         /\ pulse_start' = 0
         /\ pulse_end' = 0
         /\ t' = 0
         /\ wi' = 1
         /\ echo' = NoEcho
         /\ script' = ScriptIdle
         /\ UNCHANGED << dht_sensor, ina219, ultrasonic_enabled, nodes, clock,
                         start_time, tick, outcome, devAccess, wcount, wtick, probe,
                         remote >>

\* run() leaves its try block: the frame of update_values is gone, the
\* finally clause runs cleanup
Stop(cause) ==
    /\ pc' = "stopped"
    /\ stop_cause' = cause
    /\ released' = cleanup(dht_sensor, ultrasonic_enabled)
    /\ dht' = NoDht
    /\ ina' = NoIna
    /\ us' = NoUs
    /\ derived' = NoDerived
    /\ timeout_start' = 0
    /\ pulse_start' = 0
    /\ pulse_end' = 0
    /\ t' = 0
    /\ wi' = 1
    /\ echo' = NoEcho
    /\ script' = ScriptIdle
    /\ UNCHANGED << dht_sensor, ina219, ultrasonic_enabled, nodes, clock,
                    start_time, tick, outcome, devAccess, wcount, wtick, probe,
                    remote >>

\* ------------------------------------------------------------ init_server
\* the address space is created: every slot holds its initial value
InitServer ==
    /\ pc = "init_server"
    /\ pc' = "start_server"
    /\ nodes' = [s \in Slots |-> InitialValue(s)]
    /\ UNCHANGED << dht_sensor, ina219, ultrasonic_enabled, dht, ina, us, derived,
                    timeout_start, pulse_start, pulse_end, t, clock, start_time,
                    wi, tick, outcome, devAccess, wcount, wtick, stop_cause,
                    released, probe, echo, remote, script >>

\* init_server raises
InitServerFail ==
    /\ pc = "init_server"
    /\ Stop("setup")

\* the loop calls update_values: a new frame, nothing read or written yet
EnterUpdate ==
    /\ pc' = "read_dht11"
    /\ tick' = tick + 1
    /\ dht' = NoDht
    /\ ina' = NoIna
    /\ us' = NoUs
    /\ derived' = NoDerived
    /\ outcome' = [s \in Sensors |-> "none"]
    /\ wcount' = [s \in Slots |-> 0]
    /\ UNCHANGED << dht_sensor, ina219, ultrasonic_enabled, nodes, timeout_start,
                    pulse_start, pulse_end, t, wi, devAccess, wtick, stop_cause,
                    released, probe, echo, remote, script >>

\* async with self.server: the server starts; start_time = time.time()
StartServer ==
    /\ pc = "start_server"
    /\ start_time' = clock
    /\ EnterUpdate
    /\ UNCHANGED clock

\* the server cannot start (the endpoint cannot be bound)
StartServerFail ==
    /\ pc = "start_server"
    /\ Stop("setup")

\* ------------------------------------------------- update_values: the reads
DhtOutcome(sensor, dev) ==
    IF ~sensor THEN "unavailable"
    ELSE IF dev.kind # "values" THEN dev.kind
    ELSE IF dev.temperature = None \/ dev.humidity = None THEN "partial"
    ELSE "ok"

ReadDht11 ==
    /\ pc = "read_dht11"
    /\ \E dev \in DhtDevice :
          LET r == read_dht11(dht_sensor, dev)
          IN  IF r.raised
              THEN Stop("read_error")
              ELSE /\ dht' = [temp_c |-> r.temp_c, humidity |-> r.humidity,
                              status |-> r.status]
                   /\ devAccess' = [devAccess EXCEPT !["dht"] = @ + r.access]
                   /\ outcome' = [outcome EXCEPT !["dht"] = DhtOutcome(dht_sensor, dev)]
                   /\ pc' = "read_ina219"
                   /\ UNCHANGED << dht_sensor, ina219, ultrasonic_enabled, nodes, ina,
                                   us, derived, timeout_start, pulse_start, pulse_end,
                                   t, clock, start_time, wi, tick, wcount, wtick,
                                   stop_cause, released, probe, echo, remote, script >>

InaOutcome(sensor, dev) ==
    IF ~sensor THEN "unavailable"
    ELSE IF dev.kind # "values" THEN dev.kind
    ELSE "ok"

ReadIna219 ==
    /\ pc = "read_ina219"
    /\ \E dev \in InaDevice :
          LET r == read_ina219(ina219, dev)
          IN  IF r.raised
              THEN Stop("read_error")
              ELSE /\ ina' = [voltage |-> r.voltage, current |-> r.current,
                              power |-> r.power, status |-> r.status]
                   /\ devAccess' = [devAccess EXCEPT !["ina"] = @ + r.access]
                   /\ outcome' = [outcome EXCEPT !["ina"] = InaOutcome(ina219, dev)]
                   /\ pc' = "read_ultrasonic"
                   /\ UNCHANGED << dht_sensor, ina219, ultrasonic_enabled, nodes, dht,
                                   us, derived, timeout_start, pulse_start, pulse_end,
                                   t, clock, start_time, wi, tick, wcount, wtick,
                                   stop_cause, released, probe, echo, remote, script >>

\* read_ultrasonic returns r; its locals are kept until the derived values
\* are computed
UsReturn(r, what) ==
    /\ us' = r
    /\ outcome' = [outcome EXCEPT !["us"] = what]
    /\ pc' = "derive"
    /\ UNCHANGED << dht_sensor, ina219, ultrasonic_enabled, nodes, dht, ina, derived,
                    clock, start_time, wi, tick, wcount, wtick, stop_cause,
                    released, probe, remote >>

\* what read_ultrasonic returns on a port that did not initialise
ultrasonic_disabled == UsResult(0, 2)

\* read_ultrasonic on a port that did not initialise
ReadUltrasonicUnavailable ==
    /\ pc = "read_ultrasonic"
    /\ ~ultrasonic_enabled
    /\ UsReturn(ultrasonic_disabled, "unavailable")
    /\ UNCHANGED << timeout_start, pulse_start, pulse_end, t, devAccess, echo, script >>

\* the trigger pulse, then timeout_start = time.time(); pulse_start = timeout_start
Trigger ==
    /\ pc = "read_ultrasonic"
    /\ ultrasonic_enabled
    /\ devAccess' = [devAccess EXCEPT !["us"] = @ + 1]
    /\ timeout_start' = t
    /\ pulse_start' = t
    /\ script' = ScriptTrigger(t)
    /\ pc' = "wait_rise"
    /\ UNCHANGED << dht_sensor, ina219, ultrasonic_enabled, nodes, dht, ina, us,
                    derived, pulse_end, t, clock, start_time, wi, tick, outcome, wcount,
                    wtick, stop_cause, released, probe, echo, remote >>

\* one pass of `while GPIO.input(ECHO_PIN) == 0` that samples the line low
PollRiseLow ==
    /\ pc = "wait_rise"
    /\ \E step \in 0..MaxStep :
          /\ t + step <= TimerCap
          /\ t' = t + step
          /\ pulse_start' = t'
          /\ echo' = [echo EXCEPT !.low = TRUE]
          /\ script' = ScriptPoll(script, 0, t')
          /\ IF NoEchoStart(pulse_start', timeout_start)
             THEN /\ UsReturn(UsResult(0, 1), "no_echo_start")
                  /\ UNCHANGED << timeout_start, pulse_end >>
             ELSE /\ pc' = "wait_rise"
                  /\ UNCHANGED << dht_sensor, ina219, ultrasonic_enabled, nodes, dht,
                                  ina, us, derived, timeout_start, pulse_end, clock,
                                  start_time, wi, tick, outcome, wcount, wtick,
                                  stop_cause, released, probe, remote >>
    /\ UNCHANGED devAccess

\* the first loop samples the line high and ends; pulse_end = pulse_start
PollRiseHigh ==
    /\ pc = "wait_rise"
    /\ pulse_end' = pulse_start
    /\ script' = ScriptPoll(script, 1, t)
    /\ pc' = "wait_fall"
    /\ UNCHANGED << dht_sensor, ina219, ultrasonic_enabled, nodes, dht, ina, us,
                    derived, timeout_start, pulse_start, t, clock, start_time, wi,
                    tick, outcome, devAccess, wcount, wtick, stop_cause, released,
                    probe, echo, remote >>

\* one pass of `while GPIO.input(ECHO_PIN) == 1` that samples the line high
PollFallHigh ==
    /\ pc = "wait_fall"
    /\ \E step \in 0..MaxStep :
          /\ t + step <= TimerCap
          /\ t' = t + step
          /\ pulse_end' = t'
          /\ echo' = [echo EXCEPT !.high = TRUE]
          /\ script' = ScriptPoll(script, 1, t')
          /\ IF NoEchoEnd(pulse_end', pulse_start)
             THEN /\ UsReturn(UsResult(0, 1), "no_echo_end")
                  /\ UNCHANGED << timeout_start, pulse_start >>
             ELSE /\ pc' = "wait_fall"
                  /\ UNCHANGED << dht_sensor, ina219, ultrasonic_enabled, nodes, dht,
                                  ina, us, derived, timeout_start, pulse_start, clock,
                                  start_time, wi, tick, outcome, wcount, wtick,
                                  stop_cause, released, probe, remote >>
    /\ UNCHANGED devAccess

\* the second loop samples the line low and ends: distance and range check
PollFallLow ==
    /\ pc = "wait_fall"
    /\ UsReturn(RangeResult(PulseDuration(pulse_end, pulse_start)), "measured")
    /\ script' = ScriptPoll(script, 0, t)
    /\ UNCHANGED << timeout_start, pulse_start, pulse_end, t, devAccess, echo >>

\* a GPIO call of read_ultrasonic raises
GpioError ==
    /\ \/ pc = "read_ultrasonic" /\ ultrasonic_enabled
       \/ pc \in {"wait_rise", "wait_fall"}
    /\ LET r == ultrasonic_except
       IN  IF r.raised
           THEN Stop("read_error")
           ELSE /\ UsReturn(UsResult(r.distance_cm, r.status), "Exception")
                /\ devAccess' = [devAccess EXCEPT !["us"] =
                                   IF pc = "read_ultrasonic" THEN @ + 1 ELSE @]
                /\ script' = ScriptError(script)
                /\ UNCHANGED << timeout_start, pulse_start, pulse_end, t, echo >>

\* ------------------------------------- update_values: derive and publish
\* an update_values that converts only the readings whose status is 0
DerivedValues_gated(d, u, now, st) ==
    [temp_f |-> IF d.status = 0 THEN temp_f(d.temp_c) ELSE 0,
     distance_in |-> IF u.status = 0 THEN distance_in(u.distance_cm) ELSE 0,
     uptime |-> Uptime(now, st), timestamp |-> Strftime(now), done |-> TRUE]

\* temp_f, distance_in, uptime and timestamp of one call
DerivedValues(d, u, now, st) ==
    [temp_f |-> temp_f(d.temp_c), distance_in |-> distance_in(u.distance_cm),
     uptime |-> Uptime(now, st), timestamp |-> Strftime(now), done |-> TRUE]

Derive ==
    /\ pc = "derive"
    /\ derived' = DerivedValues(dht, us, clock, start_time)
    /\ timeout_start' = 0
    /\ pulse_start' = 0
    /\ pulse_end' = 0
    /\ t' = 0
    /\ wi' = 1
    /\ echo' = NoEcho
    /\ script' = ScriptIdle
    /\ pc' = "write"
    /\ UNCHANGED << dht_sensor, ina219, ultrasonic_enabled, nodes, dht, ina, us,
                    clock, start_time, tick, outcome, devAccess, wcount, wtick,
                    stop_cause, released, probe, remote >>

\* a publish that leaves out the write of the DHT11 Status slot
NextWrite_skips_status(i) == IF i = 3 THEN 5 ELSE i + 1

\* the position in SlotOrder of the write that follows the i-th one
NextWrite(i) == i + 1

\* a publish that hands all thirteen values to the server in one batch
WrittenBy_batch(i) == Slots

\* the slots the i-th write_value call of update_values changes
WrittenBy(i) == {SlotOrder[i]}

\* one `await self.nodes[...].write_value(...)`
WriteSlot ==
    /\ pc = "write"
    /\ LET written == WrittenBy(wi)
       IN  /\ nodes' = [s \in Slots |->
                          IF s \in written
                          THEN SlotValue(s, dht, ina, us, derived) ELSE nodes[s]]
           /\ wcount' = [s \in Slots |->
                           IF s \in written THEN wcount[s] + 1 ELSE wcount[s]]
           /\ wtick' = [s \in Slots |-> IF s \in written THEN tick ELSE wtick[s]]
           /\ remote' = [remote EXCEPT !.overridden = @ \ written]
    /\ IF NextWrite(wi) > Len(SlotOrder)
       THEN pc' = "sleep" /\ wi' = 1
       ELSE pc' = "write" /\ wi' = NextWrite(wi)
    /\ UNCHANGED << dht_sensor, ina219, ultrasonic_enabled, dht, ina, us, derived,
                    timeout_start, pulse_start, pulse_end, t, clock, start_time,
                    tick, outcome, devAccess, stop_cause, released, probe, echo, script >>

\* write_value raises: except Exception in run()
WriteSlotFail ==
    /\ pc = "write"
    /\ Stop("write_error")

\* ----------------------------------------------------------------- run()
\* a sleep that may return one second early
SleepDurations_early == {UPDATE_INTERVAL - 1, UPDATE_INTERVAL}

\* how long asyncio.sleep(UPDATE_INTERVAL) may take: the interval or longer
SleepDurations == {UPDATE_INTERVAL, UPDATE_INTERVAL + 1}

\* await asyncio.sleep(UPDATE_INTERVAL) ends; the loop calls update_values again
Sleep ==
    /\ pc = "sleep"
    /\ \E d \in SleepDurations :
          /\ clock + d <= MaxClock
          /\ clock' = clock + d
    /\ EnterUpdate
    /\ UNCHANGED start_time

\* the operator interrupts the process
Interrupt ==
    /\ pc \notin {"stopped", "probe", "probed"}
    /\ Stop("interrupt")

Next ==
    \/ InitServer
    \/ InitServerFail
    \/ StartServer
    \/ StartServerFail
    \/ ReadDht11
    \/ ReadIna219
    \/ ReadUltrasonicUnavailable
    \/ Trigger
    \/ PollRiseLow
    \/ PollRiseHigh
    \/ PollFallHigh
    \/ PollFallLow
    \/ GpioError
    \/ Derive
    \/ WriteSlot
    \/ WriteSlotFail
    \/ Sleep
    \/ Interrupt

Spec == Init /\ [][Next]_vars

\* a polling pass during which the clock moves
ClockAdvances == (PollRiseLow \/ PollFallHigh) /\ t' > t

\* the clock does not stand still for ever
FairSpec == Spec /\ WF_vars(ClockAdvances)

\* --------------------------------------------------------- remote clients
\* the writes remote clients make in one run
MaxClientWrites == 1

\* the server answers clients inside `async with self.server`
ServerRunning == pc \notin {"init_server", "start_server", "stopped", "probe", "probed"}

StatusSlots == {"dht_status", "ina_status", "ultrasonic_status"}

\* an address space whose Status slots stay read-only
Writable_payload_only(slot) == slot \in Slots \ StatusSlots

\* init_server: `for node in self.nodes.values(): await node.set_writable()`
Writable(slot) == slot \in Slots

\* what a client writes: values update_values never publishes, no valid
\* status code, no possible reading
ClientValue(slot) ==
    IF slot = "timestamp" THEN << 99, 99 >>
    ELSE IF slot \in StatusSlots THEN 7
    ELSE ToFloat(0 - 5)

\* a remote client writes a slot; the server stores the value as it comes
ClientWrite(slot) ==
    /\ ServerRunning
    /\ Writable(slot)
    /\ remote.writes < MaxClientWrites
    /\ nodes' = [nodes EXCEPT ![slot] = ClientValue(slot)]
    /\ remote' = [remote EXCEPT !.writes = @ + 1, !.overridden = @ \cup {slot}]
    /\ UNCHANGED << dht_sensor, ina219, ultrasonic_enabled, pc, dht, ina, us, derived,
                    timeout_start, pulse_start, pulse_end, t, clock, start_time,
                    wi, tick, outcome, devAccess, wcount, wtick, stop_cause,
                    released, probe, echo, script >>

ClientWrites == \E slot \in Slots : ClientWrite(slot)

\* the calls of update_values whose values a read of all slots returns now
Sources == { wtick[s] : s \in Slots \ remote.overridden }

\* a remote client reads all the slots between two steps of the server
ClientRead ==
    /\ ServerRunning
    /\ remote' = [remote EXCEPT !.observed = Sources]
    /\ remote'.observed # remote.observed
    /\ UNCHANGED << dht_sensor, ina219, ultrasonic_enabled, pc, nodes, dht, ina, us,
                    derived, timeout_start, pulse_start, pulse_end, t, clock,
                    start_time, wi, tick, outcome, devAccess, wcount, wtick,
                    stop_cause, released, probe, echo, script >>

\* the server with remote clients, on a board without the HC-SR04
ClientInit == Init /\ ~ultrasonic_enabled

ClientNext ==
    \/ InitServer
    \/ InitServerFail
    \/ StartServer
    \/ StartServerFail
    \/ ReadDht11
    \/ ReadIna219
    \/ ReadUltrasonicUnavailable
    \/ Derive
    \/ WriteSlot
    \/ WriteSlotFail
    \/ Sleep
    \/ Interrupt
    \/ ClientWrites
    \/ ClientRead

ClientSpec == ClientInit /\ [][ClientNext]_vars

\* ------------------------------------ the range validation on its own
\* pulse durations (0.1 microseconds) around both ends of the valid range
PulseDurations ==
    (1150 .. 1180) \cup (233210 .. 233250) \cup {0, 500000, 1000000}

PulseInit ==
    /\ dht_sensor = TRUE
    /\ ina219 = TRUE
    /\ ultrasonic_enabled = TRUE
    /\ pc = "probe"
    /\ nodes = [s \in Slots |-> InitialValue(s)]
    /\ dht = NoDht
    /\ ina = NoIna
    /\ us = NoUs
    /\ derived = NoDerived
    /\ timeout_start = 0
    /\ pulse_start = 0
    /\ pulse_end = 0
    /\ t = 0
    /\ clock = 0
    /\ start_time = 0
    /\ wi = 1
    /\ tick = 0
    /\ outcome = [s \in Sensors |-> "none"]
    /\ devAccess = [s \in Sensors |-> 0]
    /\ wcount = [s \in Slots |-> 0]
    /\ wtick = [s \in Slots |-> 0]
    /\ stop_cause = "none"
    /\ released = {}
    /\ probe \in PulseDurations
    /\ echo = NoEcho
    /\ remote = NoRemote
    /\ script = ScriptIdle

\* the end of read_ultrasonic applied to a pulse of `probe`
ProbePulse ==
    /\ pc = "probe"
    /\ pc' = "probed"
    /\ us' = RangeResult(probe)
    /\ outcome' = [outcome EXCEPT !["us"] = "measured"]
    /\ UNCHANGED << dht_sensor, ina219, ultrasonic_enabled, nodes, dht, ina, derived,
                    timeout_start, pulse_start, pulse_end, t, clock, start_time,
                    wi, tick, devAccess, wcount, wtick, stop_cause, released,
                    probe, echo, remote, script >>

PulseStart == Init \/ PulseInit

PulseNext == Next \/ ProbePulse

PulseSpec == PulseStart /\ [][PulseNext]_vars

\* ------------------------------------------------------------- the claims
DhtReturned == dht.status # Unset
InaReturned == ina.status # Unset
UsReturned == us.status # Unset

\* update_values is past its three reads
AllRead == pc \in {"derive", "write", "sleep"}

DhtZero(st) == [temp_c |-> 0, humidity |-> 0, status |-> st]
InaZero(st) == [voltage |-> 0, current |-> 0, power |-> 0, status |-> st]

\* one step as seen from a sensor whose initialisation failed
C1_Step ==
    /\ ~dht_sensor =>
          /\ ~dht_sensor'
          /\ devAccess'["dht"] = 0
          /\ DhtReturned' => dht' = DhtZero(2)
          /\ (pc = "read_dht11" /\ pc' # "stopped") => DhtReturned'
    /\ ~ina219 =>
          /\ ~ina219'
          /\ devAccess'["ina"] = 0
          /\ InaReturned' => ina' = InaZero(2)
          /\ (pc = "read_ina219" /\ pc' # "stopped") => InaReturned'
    /\ ~ultrasonic_enabled =>
          /\ ~ultrasonic_enabled'
          /\ devAccess'["us"] = 0
          /\ UsReturned' => us' = UsResult(0, 2)
          /\ (pc = "read_ultrasonic" /\ pc' # "stopped") => UsReturned'

\* C1: a sensor whose initialisation failed in SensorReader.__init__ stays
\* uninitialised for ever; each of its reads, in every cycle, returns status 2
\* with a zero payload, and no step touches its device.
C1_UnavailableForLifetime == [][C1_Step]_vars

\* second cycle, no sensor initialised, all three reads have returned status 2
C1_Witness ==
    /\ tick = 2
    /\ ~dht_sensor /\ ~ina219 /\ ~ultrasonic_enabled
    /\ pc = "derive"
    /\ dht.status = 2 /\ ina.status = 2 /\ us.status = 2
    /\ nodes["dht_status"] = 2 /\ nodes["ultrasonic_status"] = 2

\* the status each outcome of a sensor leads to
DhtStatusOf(o) ==
    CASE o = "ok" -> {0}
      [] o \in {"partial", "RuntimeError"} -> {1}
      [] o \in {"Exception", "unavailable"} -> {2}
      [] OTHER -> {}

InaStatusOf(o) ==
    CASE o = "ok" -> {0}
      [] o \in {"Exception", "unavailable"} -> {2}
      [] OTHER -> {}

UsStatusOf(o) ==
    CASE o = "measured" -> {0, 3}
      [] o \in {"no_echo_start", "no_echo_end"} -> {1}
      [] o \in {"Exception", "unavailable"} -> {2}
      [] OTHER -> {}

\* C2: once update_values is past its reads, all three sensors were read in
\* this cycle and each status follows from that sensor's own outcome alone;
\* a ranging timeout beside two successful reads gives statuses 0, 0 and 1.
C2_ReadsIndependent ==
    AllRead =>
        /\ \A s \in Sensors : outcome[s] # "none"
        /\ dht.status \in DhtStatusOf(outcome["dht"])
        /\ ina.status \in InaStatusOf(outcome["ina"])
        /\ us.status \in UsStatusOf(outcome["us"])
        /\ ( /\ outcome["dht"] = "ok"
             /\ outcome["ina"] = "ok"
             /\ outcome["us"] \in {"no_echo_start", "no_echo_end"} )
           => (dht.status = 0 /\ ina.status = 0 /\ us.status = 1)

\* a published cycle in which only the ranging read timed out
C2_Witness ==
    /\ pc = "sleep"
    /\ outcome = [s \in Sensors |-> IF s = "us" THEN "no_echo_start" ELSE "ok"]
    /\ nodes["dht_status"] = 0
    /\ nodes["ina_status"] = 0
    /\ nodes["ultrasonic_status"] = 1

DeviceFailed ==
    \/ outcome["dht"] \in {"partial", "RuntimeError", "Exception"}
    \/ outcome["ina"] = "Exception"
    \/ outcome["us"] \in {"no_echo_start", "no_echo_end", "Exception"}

\* C3: no read ends run() (stop_cause is never "read_error"); every read that
\* was made returned a payload with a status in 0..3; and a cycle in which a
\* device failed is published in full before the loop sleeps.
C3_FailuresAbsorbed ==
    /\ stop_cause # "read_error"
    /\ DhtReturned => dht.status \in 0..3
    /\ InaReturned => ina.status \in 0..3
    /\ UsReturned => us.status \in 0..3
    /\ (pc \in {"read_ina219", "read_ultrasonic", "wait_rise", "wait_fall"})
          => DhtReturned
    /\ (pc \in {"read_ultrasonic", "wait_rise", "wait_fall"}) => InaReturned
    /\ AllRead => (DhtReturned /\ InaReturned /\ UsReturned)
    /\ (pc = "sleep" /\ DeviceFailed) => \A s \in Slots : wcount[s] = 1

\* the second cycle is under way after a first cycle in which all three
\* devices raised
C3_Witness ==
    /\ tick = 2
    /\ pc = "read_ina219"
    /\ dht_sensor /\ ina219 /\ ultrasonic_enabled
    /\ devAccess = [s \in Sensors |-> IF s = "dht" THEN 2 ELSE 1]
    /\ nodes["dht_status"] = 2
    /\ nodes["ina_status"] = 2
    /\ nodes["ultrasonic_status"] = 2
    /\ wtick["uptime"] = 1

\* C4 as claimed: on a DHT11 or INA219 port that initialised, every failed
\* read gives status 1 with a zero payload, never status 2.
C4_AsClaimed ==
    /\ (dht_sensor /\ DhtReturned) =>
          /\ dht.status # 2
          /\ outcome["dht"] # "ok" => dht = DhtZero(1)
    /\ (ina219 /\ InaReturned) =>
          /\ ina.status # 2
          /\ outcome["ina"] # "ok" => ina = InaZero(1)

\* C4 amended: on a DHT11 port that initialised, a RuntimeError or a missing
\* value gives status 1 and any other exception status 2; on an INA219 port
\* that initialised every failed read gives status 2; always a zero payload.
C4_FailureStatus ==
    /\ (dht_sensor /\ DhtReturned) =>
          /\ outcome["dht"] \in {"partial", "RuntimeError"} => dht = DhtZero(1)
          /\ outcome["dht"] = "Exception" => dht = DhtZero(2)
          /\ outcome["dht"] = "ok" => dht.status = 0
    /\ (ina219 /\ InaReturned) =>
          /\ outcome["ina"] = "Exception" => ina = InaZero(2)
          /\ outcome["ina"] = "ok" => ina.status = 0

\* both initialised ports met an unexpected exception in the same cycle
C4_Witness ==
    /\ dht_sensor /\ ina219
    /\ outcome["dht"] = "Exception" /\ dht.status = 2
    /\ outcome["ina"] = "Exception" /\ ina.status = 2

\* C5: while the echo line has not been sampled high the first loop polls only
\* as long as no more than 0.1 s have passed since polling started; when it
\* gives up it returns (0.0, 1), and then more than 0.1 s have passed.
C5_NoEchoStart ==
    /\ pc = "wait_rise" => pulse_start - timeout_start <= TIMEOUT
    /\ (pc = "derive" /\ outcome["us"] = "no_echo_start") =>
          /\ us = UsResult(0, 1)
          /\ pulse_start = t
          /\ t - timeout_start > TIMEOUT

\* the read gave up one tick after 0.1 s
C5_Witness ==
    /\ pc = "derive"
    /\ outcome["us"] = "no_echo_start"
    /\ t - timeout_start = TIMEOUT + 1
    /\ us = UsResult(0, 1)

\* C6: the second loop polls only as long as no more than 0.1 s have passed
\* since pulse_start; when the line is still high after that it returns
\* (0.0, 1), whatever time has passed since polling started.
C6_NoEchoEnd ==
    /\ pc = "wait_fall" => pulse_end - pulse_start <= TIMEOUT
    /\ (pc = "derive" /\ outcome["us"] = "no_echo_end") =>
          /\ us = UsResult(0, 1)
          /\ pulse_end = t
          /\ pulse_end - pulse_start > TIMEOUT

\* the line rose 0.1 s after polling started and was still high 0.11 s later
C6_Witness ==
    /\ pc = "derive"
    /\ outcome["us"] = "no_echo_end"
    /\ pulse_start - timeout_start = TIMEOUT
    /\ pulse_end - pulse_start = TIMEOUT + 1
    /\ us = UsResult(0, 1)

InRanging == pc \in {"wait_rise", "wait_fall"}

\* no more than both timeouts and one polling step since polling started
WithinLatency == t - timeout_start <= 2 * TIMEOUT + MaxStep

\* C7: whatever the echo line does, a ranging read that has started polling
\* ends (provided the clock advances), and from the start of polling to the
\* return no more than both timeouts plus one polling step pass.
C7_RangingTerminates ==
    /\ []((InRanging \/ pc = "derive") => WithinLatency)
    /\ (InRanging ~> ~InRanging)

\* a read that took the longest possible time
C7_Witness ==
    /\ pc = "derive"
    /\ outcome["us"] = "no_echo_end"
    /\ t - timeout_start = 2 * TIMEOUT + MaxStep

\* the pulse duration a finished measurement is about
MeasuredDuration ==
    IF pc = "probed" THEN probe ELSE PulseDuration(pulse_end, pulse_start)

\* C8: a measured pulse gives status 0 with the distance (rounded to two
\* decimals) exactly when 2 <= distance <= 400, and status 3 with distance 0.0
\* otherwise; a non-zero distance only comes with status 0 and lies in [2, 400].
C8_RangeValidation ==
    /\ (pc \in {"derive", "probed"} /\ outcome["us"] = "measured") =>
          LET d == Distance(MeasuredDuration)
          IN  IF ToFloat(2) <= d /\ d <= ToFloat(400)
              THEN us = UsResult(d, 0)
              ELSE us = UsResult(0, 3)
    /\ us.distance_cm # 0 =>
          /\ us.status = 0
          /\ ToFloat(2) <= us.distance_cm
          /\ us.distance_cm <= ToFloat(400)

\* a pulse whose distance is exactly 2.00 cm is accepted
C8_Witness ==
    /\ pc = "probed"
    /\ Distance(probe) = ToFloat(2)
    /\ us = UsResult(ToFloat(2), 0)

\* C9: every result a read has returned with a status other than 0 has all
\* payload fields zero.
C9_NonOkZeroPayload ==
    /\ (DhtReturned /\ dht.status # 0) => (dht.temp_c = 0 /\ dht.humidity = 0)
    /\ (InaReturned /\ ina.status # 0) =>
          (ina.voltage = 0 /\ ina.current = 0 /\ ina.power = 0)
    /\ (UsReturned /\ us.status # 0) => us.distance_cm = 0

\* three failed reads in one cycle, the ranging one by a pulse too long
C9_Witness ==
    /\ pc = "derive"
    /\ dht.status = 1
    /\ ina.status = 2
    /\ us.status = 3
    /\ pulse_end - pulse_start >= 3

\* what each slot holds once this call's snapshot is published
Published ==
    [s \in Slots |->
        CASE s = "temp" -> dht.temp_c
          [] s = "temp_f" -> (dht.temp_c * 9) \div 5 + 3200
          [] s = "humidity" -> dht.humidity
          [] s = "dht_status" -> dht.status
          [] s = "voltage" -> ina.voltage
          [] s = "current" -> ina.current
          [] s = "power" -> ina.power
          [] s = "ina_status" -> ina.status
          [] s = "distance" -> us.distance_cm
          [] s = "distance_in" -> (us.distance_cm * 100) \div 254
          [] s = "ultrasonic_status" -> us.status
          [] s = "timestamp" -> << clock \div 60, clock % 60 >>
          [] s = "uptime" -> (clock - start_time) * 100]

\* C10: in each call of update_values nothing is written before the three
\* reads and the derived values are done; then the 13 slots are written in
\* order, each once, each with the value of this call's snapshot.
C10_PublishOncePerTick ==
    /\ pc \in {"read_dht11", "read_ina219", "read_ultrasonic", "wait_rise",
               "wait_fall", "derive"} => \A s \in Slots : wcount[s] = 0
    /\ pc = "write" =>
          /\ DhtReturned /\ InaReturned /\ UsReturned /\ derived.done
          /\ \A i \in 1..Len(SlotOrder) :
                IF i < wi
                THEN /\ wcount[SlotOrder[i]] = 1
                     /\ wtick[SlotOrder[i]] = tick
                     /\ nodes[SlotOrder[i]] = Published[SlotOrder[i]]
                ELSE wcount[SlotOrder[i]] = 0
    /\ pc = "sleep" =>
          \A s \in Slots :
             /\ wcount[s] = 1
             /\ wtick[s] = tick
             /\ nodes[s] = Published[s]

\* the second cycle is published: every slot holds a value of that cycle
C10_Witness ==
    /\ pc = "sleep"
    /\ tick = 2
    /\ \A s \in Slots : wtick[s] = 2
    /\ nodes["uptime"] = ToFloat(UPDATE_INTERVAL)
    /\ nodes["dht_status"] = 0
    /\ nodes["temp"] = ToFloat(25)

\* the slots update_values has written so far in the current call
WrittenSoFar == { SlotOrder[i] : i \in 1..(wi - 1) }

\* C11: publishing is not atomic across slots. While update_values is between
\* two of its write_value calls and the server answers clients, the slots
\* already written carry the current call's values and all the others still
\* carry the previous call's (the initial values during the first call), so
\* a read of all slots made there returns a mix of the two.
C11_TornPublish ==
    /\ (pc = "write" /\ ServerRunning) =>
          /\ \A s \in WrittenSoFar : wtick[s] = tick /\ wcount[s] = 1
          /\ \A s \in Slots \ WrittenSoFar : wtick[s] = tick - 1 /\ wcount[s] = 0
          /\ \A s \in WrittenSoFar \ remote.overridden :
                nodes[s] = SlotValue(s, dht, ina, us, derived)
    /\ remote.observed \subseteq (0 .. tick)
    /\ \A a, b \in remote.observed : a - b <= 1

\* a reader got the second call's temperature with the first call's Status,
\* which says the DHT11 read failed
C11_Witness ==
    /\ pc = "write"
    /\ tick = 2
    /\ remote.observed = {1, 2}
    /\ remote.overridden = {}
    /\ wtick["temp"] = 2
    /\ wtick["dht_status"] = 1
    /\ nodes["temp"] = ToFloat(25)
    /\ nodes["dht_status"] = 1

\* what the loop has read and published so far does not change in this step
NoLoopActivity ==
    /\ pc' = "stopped"
    /\ tick' = tick
    /\ devAccess' = devAccess
    /\ wcount' = wcount
    /\ wtick' = wtick
    /\ nodes' = nodes

C12_Step ==
    /\ (pc = "sleep" /\ stop_cause' = "interrupt") => NoLoopActivity
    /\ (stop_cause = "interrupt") => NoLoopActivity

\* C12: an operator interrupt that arrives during the sleep between two
\* cycles ends the loop there: the step that takes it leads to Stopped
\* without starting another update_values call, and from then on no sensor
\* is read and no slot is written.
C12_InterruptInSleep == [][C12_Step]_vars

\* interrupted in the sleep that follows the first complete publish
C12_Witness ==
    /\ pc = "stopped"
    /\ stop_cause = "interrupt"
    /\ tick = 1
    /\ \A s \in Slots : wcount[s] = 1 /\ wtick[s] = 1

\* C13: whenever the loop is Stopped, by whatever path, teardown has released
\* every handle that initialization acquired (DHT11 pin, I2C bus, GPIO pins),
\* and from Stopped the loop never moves again.
C13_AsClaimed ==
    /\ [](pc = "stopped" =>
            released = Acquired(dht_sensor, ina219, ultrasonic_enabled))
    /\ [][pc = "stopped" => NoLoopActivity]_vars

\* the loop is running: the server is up and update_values is being called
Running == ServerRunning

\* C14: once Running, the loop goes to Stopped only on an operator interrupt
\* or a setup failure; nothing that happens during a cycle, a failing slot
\* write included, ends it.
C14_AsClaimed ==
    [][(Running /\ pc' = "stopped") => stop_cause' \in {"interrupt", "setup"}]_vars

\* C15: when provisioning fails (init_server raises, or the server cannot
\* start), update_values is never called: no sensor is read, no slot is
\* written, cleanup releases the handles of the sensors, and run() is over.
C15_SetupFailure ==
    stop_cause = "setup" =>
        /\ pc = "stopped"
        /\ tick = 0
        /\ \A x \in Sensors : devAccess[x] = 0
        /\ \A s \in Slots : wcount[s] = 0 /\ wtick[s] = 0 /\ nodes[s] = InitialValue(s)
        /\ dht_sensor => "dht" \in released
        /\ ultrasonic_enabled => "gpio" \in released
        /\ ~ENABLED Next

\* provisioning failed on a board where the DHT11 and the HC-SR04 initialised
C15_Witness ==
    /\ pc = "stopped"
    /\ stop_cause = "setup"
    /\ dht_sensor
    /\ ultrasonic_enabled
    /\ released = {"dht", "gpio"}

\* the sleep between two calls of update_values lasts at least the interval
SleepStep == (pc = "sleep" /\ pc' = "read_dht11") => clock' - clock >= UPDATE_INTERVAL

\* the calls of update_values that have published all their slots
CompletedTicks == IF pc = "sleep" THEN tick ELSE tick - 1

\* C16 as claimed: the sleep lasts at least I, and once N ticks are complete
\* at least N x I has passed since the loop started
C16_AsClaimed ==
    /\ [](Running => clock - start_time >= CompletedTicks * UPDATE_INTERVAL)
    /\ [][SleepStep]_vars

\* C16: after each publish the loop sleeps at least the interval I before the
\* next tick begins, so tick N starts no earlier than (N - 1) x I after the
\* loop started: when N ticks are complete at least (N - 1) x I has passed,
\* and N x I once tick N + 1 has begun.
C16_SleepBetweenTicks ==
    /\ [](Running => clock - start_time >= (tick - 1) * UPDATE_INTERVAL)
    /\ [][SleepStep]_vars

\* the second tick begins exactly one interval after the loop started
C16_Witness ==
    /\ pc = "read_dht11"
    /\ tick = 2
    /\ clock - start_time = UPDATE_INTERVAL

\* a step in which update_values writes slot s stores its own value for this
\* call, whatever a client had put there
EngineOverwrites ==
    \A s \in Slots :
        wcount'[s] > wcount[s] =>
            /\ s \notin remote'.overridden
            /\ nodes'[s] = Published[s]

\* C17: every slot takes a remote write as it comes, and the last writer
\* wins: the client's value stays in the slot until update_values writes that
\* slot again, and that write replaces it with the value of its own call.
C17_LastWriterWins ==
    /\ [](/\ (ServerRunning /\ remote.writes < MaxClientWrites) =>
                \A s \in Slots : ENABLED ClientWrite(s)
          /\ \A s \in remote.overridden : nodes[s] = ClientValue(s)
          /\ pc \in {"write", "sleep"} =>
                \A s \in Slots \ remote.overridden :
                    wcount[s] = 1 => nodes[s] = Published[s])
    /\ [][EngineOverwrites]_vars

\* a client wrote a slot while the loop ran; the second publish is complete
\* and every slot holds the second call's value again
C17_Witness ==
    /\ pc = "sleep"
    /\ tick = 2
    /\ remote.writes = 1
    /\ remote.overridden = {}
    /\ nodes = Published

\* the second call has computed its derived values and written nothing yet:
\* the slots still hold what the first call published
SecondDerivation ==
    /\ pc = "write"
    /\ wi = 1
    /\ tick = 2
    /\ \A s \in Slots : wtick[s] = 1

\* the readings of this call are those of the previous call
SameReadings ==
    \A s \in {"temp", "humidity", "dht_status", "voltage", "current", "power",
               "ina_status", "distance", "ultrasonic_status"} :
        SlotValue(s, dht, ina, us, derived) = nodes[s]

\* C18 as claimed: the same readings give the same four derived values
C18_AsClaimed ==
    (SecondDerivation /\ SameReadings) =>
        \A s \in {"temp_f", "distance_in", "uptime", "timestamp"} :
            SlotValue(s, dht, ina, us, derived) = nodes[s]

\* C18: temp_f and distance_in depend on the readings alone: the same
\* readings give the same two values in every call. uptime and timestamp are
\* taken from the clock when the derivation runs: a later call with the same
\* readings computes a larger uptime and another timestamp.
C18_PureExceptClock ==
    (SecondDerivation /\ SameReadings) =>
        /\ derived.temp_f = nodes["temp_f"]
        /\ derived.distance_in = nodes["distance_in"]
        /\ derived.uptime >= nodes["uptime"] + ToFloat(UPDATE_INTERVAL)
        /\ derived.timestamp # nodes["timestamp"]

\* two calls with the same good DHT11 reading, one interval apart
C18_Witness ==
    /\ SecondDerivation
    /\ SameReadings
    /\ dht.status = 0
    /\ derived.temp_f = ToFloat(77)
    /\ nodes["uptime"] = 0
    /\ derived.uptime = ToFloat(UPDATE_INTERVAL)

\* C19: the derived values are computed and published in every call, whatever
\* the statuses: a DHT11 status other than 0 publishes 0 degrees C and 32
\* degrees F, an HC-SR04 status other than 0 publishes 0 cm and 0 inches.
C19_DerivedRegardless ==
    /\ pc \in {"write", "sleep"} => derived.done
    /\ pc = "sleep" => wcount["temp_f"] = 1 /\ wcount["distance_in"] = 1
    /\ (pc \in {"write", "sleep"} /\ wcount["temp_f"] = 1 /\ dht.status # 0) =>
          nodes["temp"] = 0 /\ nodes["temp_f"] = ToFloat(32)
    /\ (pc \in {"write", "sleep"} /\ wcount["distance_in"] = 1 /\ us.status # 0) =>
          nodes["distance"] = 0 /\ nodes["distance_in"] = 0

\* a call in which the DHT11 read and the ranging both failed is published
C19_Witness ==
    /\ pc = "sleep"
    /\ dht.status = 1
    /\ us.status = 1
    /\ nodes["dht_status"] = 1
    /\ nodes["temp_f"] = ToFloat(32)
    /\ nodes["ultrasonic_status"] = 1
    /\ nodes["distance_in"] = 0

\* read_ultrasonic has returned status 0
RangingOk == pc = "derive" /\ us.status = 0

\* C20 as claimed: status 0 only after the echo line was sampled low by the
\* first loop, high by the second loop, and then low
C20_AsClaimed ==
    RangingOk => (echo.low /\ echo.high /\ outcome["us"] = "measured")

\* C20: read_ultrasonic returns status 0 only if the second loop sampled the
\* echo line high at a later clock reading than pulse_start and then sampled
\* it low. A read whose second loop finds the line low at its first poll
\* never returns 0. A read that finds the line high at the very first poll
\* skips the first loop, times the pulse from timeout_start, and can return 0.
C20_OkNeedsPulse ==
    /\ RangingOk =>
          /\ outcome["us"] = "measured"
          /\ echo.high
          /\ pulse_end > pulse_start
    /\ (pc \in {"wait_fall", "derive"} /\ ~echo.low) => pulse_start = timeout_start

\* status 0 from a read whose first poll already found the echo line high
C20_Witness ==
    /\ RangingOk
    /\ ~echo.low
    /\ echo.high
    /\ pulse_start = timeout_start
    /\ us.distance_cm > 0

\* the Status slot of a sensor
StatusSlotOf(x) ==
    CASE x = "dht" -> "dht_status"
      [] x = "ina" -> "ina_status"
      [] x = "us" -> "ultrasonic_status"

\* the status the read of sensor x returned in the current call
ReadStatus(x) ==
    CASE x = "dht" -> dht.status
      [] x = "ina" -> ina.status
      [] x = "us" -> us.status

\* C21: while clients can read the slots and none has written one, a Status
\* slot holds 0 (OK) only if the most recent completed read of its sensor
\* returned 0: the read of the current call once it has returned, else the
\* read of the previous call; before the first read has returned no Status
\* slot holds 0.
C21_AsClaimed ==
    (ServerRunning /\ remote.writes = 0) =>
        \A x \in Sensors :
            nodes[StatusSlotOf(x)] = 0 =>
                IF outcome[x] # "none" THEN ReadStatus(x) = 0 ELSE tick > 1

\* C22: given the same samples of the echo line at the same clock readings,
\* the HC-SR04 reading of test_sensor.py and read_ultrasonic end together and
\* classify alike: the script raises TimeoutError exactly when read_ultrasonic
\* returns status 1, prints OUT OF RANGE exactly when it returns 3, and counts
\* a reading, with the same distance, exactly when it returns 0.
C22_SameClassification ==
    /\ pc \in {"wait_rise", "wait_fall"} => script.pc = pc /\ script.result = "none"
    /\ (pc = "derive" /\ outcome["us"] # "unavailable") =>
          /\ script.pc = "done"
          /\ script.result = "timeout" <=> us.status = 1
          /\ script.result = "out_of_range" <=> us.status = 3
          /\ script.result = "success" <=> us.status = 0
          /\ us.status = 0 => script.distance = us.distance_cm

\* both measured the same pulse and accepted the same distance
C22_Witness ==
    /\ pc = "derive"
    /\ outcome["us"] = "measured"
    /\ script.result = "success"
    /\ us.status = 0
    /\ script.distance = us.distance_cm
    /\ us.distance_cm > 0

====
